---- MODULE Spec2Model ----
(***************************************************************************)
(* Streaming session engine of the chat client (frontend/actions/useChat). *)
(* The hook owns one WebSocket handle, decodes the backend's events into   *)
(* an assembled assistant message and runs the session operations          *)
(* (send, stop, load, new chat, branch switch).                            *)
(*                                                                         *)
(* Text is modelled as a sequence of tokens: "x" an ordinary character,    *)
(* "_" a whitespace character, "TO" the literal <think>, "TC" the literal  *)
(* </think>.                                                               *)
(***************************************************************************)
EXTENDS Integers, Sequences, FiniteSets, TLC

\* ---------------------------------------------------------------- bounds
MaxLen == 3
MaxThink == 2
MaxSockets == 3
MaxSends == 2
MaxMsgs == 3
MaxSteps == 5
MaxRecords == 2

\* ------------------------------------------------------------ input sets
Null == "null"
Tokens == {"x", "_", "TO", "TC"}
ThinkTokens == {"TO", "TC"}
Threads == {"T1", "T2"}
Tools == {"lookup"}
UserIds == {"U1"}
AssistantIds == {"A1"}
ProjectKeys == {"", "P1"}
Contents == {<<"x">>, <<"_">>}
BranchIndexes == {0, 5}

VARIABLES
    messages, isStreaming, threadId, streamingContent, thinkingContent,
    isThinking, currentToolCall, isConnected,
    wsRef, accumulatedContentRef, pendingMessageRef, currentThreadIdRef,
    sockets, nextSocket, sent, switchReq, refreshing,
    editReq, feedbackReq, settled, fetched,
    callLog, overwritten, g, last, steps,
    body, buffer, dispatched, reading, records, carried,
    hookSockets, hookWsRef, hookIsConnected, reconnectTimeoutRef, timers,
    nextHookSocket, nextTimer, disconnected

stateVars == <<messages, isStreaming, threadId, streamingContent,
               thinkingContent, isThinking, currentToolCall, isConnected>>
refVars == <<wsRef, accumulatedContentRef, pendingMessageRef, currentThreadIdRef>>
netVars == <<sockets, nextSocket, sent, switchReq, refreshing>>
httpVars == <<editReq, feedbackReq, settled, fetched>>
\* the read loop of the chunked-HTTP variant (useAdminDashboard)
decoderVars == <<body, buffer, dispatched, reading, records, carried>>
\* the auto-reconnecting useWebSocket hook
reconnectVars == <<hookSockets, hookWsRef, hookIsConnected, reconnectTimeoutRef, timers,
                   nextHookSocket, nextTimer, disconnected>>
auxVars == <<decoderVars, reconnectVars>>
vars == <<stateVars, refVars, netVars, httpVars, callLog, overwritten, g, last, steps,
          auxVars>>

\* ------------------------------------------------------- pure functions

\* index of the first "TC" at or after position i, 0 when there is none
RECURSIVE FirstClose(_, _)
FirstClose(s, i) ==
    IF i > Len(s) THEN 0
    ELSE IF s[i] = "TC" THEN i
    ELSE FirstClose(s, i + 1)

\* content.replace(/<think>[\s\S]*?<\/think>/g, '')
RECURSIVE RemoveThink(_)
RemoveThink(s) ==
    IF s = <<>> THEN <<>>
    ELSE IF Head(s) = "TO" /\ FirstClose(s, 2) # 0
         THEN RemoveThink(SubSeq(s, FirstClose(s, 2) + 1, Len(s)))
         ELSE <<Head(s)>> \o RemoveThink(Tail(s))

\* String.prototype.trim
RECURSIVE Trim(_)
Trim(s) ==
    IF s = <<>> THEN <<>>
    ELSE IF Head(s) = "_" THEN Trim(Tail(s))
    ELSE IF s[Len(s)] = "_" THEN Trim(SubSeq(s, 1, Len(s) - 1))
    ELSE s

filterThinkTags(content) == Trim(RemoveThink(content))

\* projectKey || null
OrNull(v) == IF v = Null \/ v = "" THEN Null ELSE v

\* newMessages.map(m => m.role).lastIndexOf('user'), 0 when there is none
RECURSIVE LastUserIndex(_)
LastUserIndex(ms) ==
    IF ms = <<>> THEN 0
    ELSE IF ms[Len(ms)].role = "user" THEN Len(ms)
    ELSE LastUserIndex(SubSeq(ms, 1, Len(ms) - 1))

\* messages.map(m => ({...m, content: filterThinkTags(m.content)}))
FilterMessages_Raw(ms) == ms

FilterMessages(ms) ==
    [i \in 1..Len(ms) |-> [ms[i] EXCEPT !.content = filterThinkTags(ms[i].content)]]

UserMessage(content, call) ==
    [role |-> "user", content |-> content, id |-> Null, call |-> call,
     feedback |-> Null, feedbackNote |-> Null]

AssistantMessage(content, id) ==
    [role |-> "assistant", content |-> content, id |-> id, call |-> 0,
     feedback |-> Null, feedbackNote |-> Null]

\* what GET /conversations/{threadId} or the conversation cache can hold
ServerConversations ==
    { <<>>,
      << [role |-> "user", content |-> <<"x">>, id |-> "U1", call |-> 0,
          feedback |-> Null, feedbackNote |-> Null],
         [role |-> "assistant", content |-> <<"TO", "TC", "x">>, id |-> "A1", call |-> 0,
          feedback |-> Null, feedbackNote |-> Null] >> }

\* ------------------------------------------------------------ WebSocket

\* wsRef.current === null
NoWs == 0
\* pendingMessageRef.current === null
NoPending == [content |-> <<>>, projectKey |-> Null, call |-> 0]
\* no switchBranch call is awaiting a response
NoSwitch == [messageId |-> Null, branchIndex |-> 0, threadId |-> Null, stage |-> "none"]

\* no editMessage call is awaiting its PUT
NoEdit == [messageId |-> Null, newContent |-> <<>>, stage |-> "none"]
\* no submitFeedback call is awaiting its POST
NoFeedback == [messageId |-> Null, feedback |-> Null, note |-> Null, stage |-> "none"]

NoSocket == [readyState |-> "NONE", path |-> Null]

\* WebSocket.close(): a connecting or open socket starts closing
CloseSocket_Noop(socks, s) == socks

CloseSocket(socks, s) ==
    IF socks[s].readyState \in {"CONNECTING", "OPEN"}
    THEN [socks EXCEPT ![s].readyState = "CLOSING"]
    ELSE socks

IsOpen(s) == s # NoWs /\ sockets[s].readyState = "OPEN"

\* the browser dispatches message events only while readyState is OPEN
CanDeliver(s) == sockets[s].readyState = "OPEN"

\* getWsUrl(threadId): ws/chat/{threadId || 'new'}
getWsUrl(t) == IF t = Null THEN "new" ELSE t

\* connect(wsThreadId): close the held handle, open a new one
connect(wsThreadId) ==
    /\ nextSocket <= MaxSockets
    /\ sockets' = [ (IF wsRef # NoWs THEN CloseSocket(sockets, wsRef) ELSE sockets)
                    EXCEPT ![nextSocket] = [readyState |-> "CONNECTING",
                                            path |-> getWsUrl(wsThreadId)] ]
    /\ wsRef' = nextSocket
    /\ nextSocket' = nextSocket + 1
    /\ currentThreadIdRef' = wsThreadId

\* JSON.stringify({message, project_key: projectKey || null}) on socket ws
Payload_RawKey(ws, content, projectKey, call) ==
    [sock |-> ws, message |-> content, project_key |-> projectKey,
     action |-> Null, call |-> call]

Payload(ws, content, projectKey, call) ==
    [sock |-> ws, message |-> content, project_key |-> OrNull(projectKey),
     action |-> Null, call |-> call]

\* sendMessageInternal(ws, content, projectKey)
sendMessageInternal(ws, content, projectKey, call) ==
    /\ messages' = Append(messages, UserMessage(content, call))
    /\ isStreaming' = TRUE
    /\ isThinking' = TRUE
    /\ thinkingContent' = <<>>
    /\ streamingContent' = <<>>
    /\ currentToolCall' = Null
    /\ accumulatedContentRef' = <<>>
    /\ sent' = Append(sent, Payload(ws, content, projectKey, call))

\* sendMessage while not open: pendingMessageRef.current = { content, projectKey }
QueuePending_KeepFirst(old, new) == IF old.call # 0 THEN old ELSE new

QueuePending(old, new) == new

\* ws.onopen, after taking the queued send: pendingMessageRef.current = null
AfterFlush_Keep(p) == p

AfterFlush(p) == [content |-> <<>>, projectKey |-> Null, call |-> 0]

\* History of the generation in progress, kept beside the program's state to
\* state the claims: which events arrived since the send (or since the mount)
\* and what they carried.
\*   F0 fresh session     FI then init{thread}      FC then content+
\*   S0 a send went out   ST then thinking+         SC then (stream|content)+
\*   TC a tool_call just discarded the buffer `deltas`
\*   SE, FE, TE, E  an 'end' was processed after S*, FC, TC, anything else
\*   X  none of these
Shape(sh) == [shape |-> sh, deltas |-> <<>>, thinks |-> <<>>, thread |-> Null,
              base |-> 0, assistants |-> 0, final |-> <<>>, aid |-> Null, uid |-> Null]
Broken == Shape("X")
AfterSend == Shape("S0")
Fresh == Shape("F0")
Counting == {"S0", "ST", "SC", "F0", "FI", "FC"}

RECURSIVE AssistantCount(_)
AssistantCount(ms) ==
    IF ms = <<>> THEN 0
    ELSE (IF Head(ms).role = "assistant" THEN 1 ELSE 0) + AssistantCount(Tail(ms))

\* bookkeeping of every operation: its name, and one more step of the run
Did(name) ==
    /\ steps < MaxSteps
    /\ steps' = steps + 1
    /\ last' = name

\* no response body is being read; the reconnecting hook is mounted, not connected
AuxInit ==
    /\ body = <<>>
    /\ buffer = <<>>
    /\ dispatched = <<>>
    /\ reading = FALSE
    /\ records = <<>>
    /\ carried = FALSE
    /\ hookSockets = [s \in 1..MaxSockets |-> "NONE"]
    /\ hookWsRef = 0
    /\ hookIsConnected = FALSE
    /\ reconnectTimeoutRef = 0
    /\ timers = {}
    /\ nextHookSocket = 1
    /\ nextTimer = 1
    /\ disconnected = FALSE

\* ----------------------------------------------------------------- Init
Init ==
    /\ messages = <<>>
    /\ isStreaming = FALSE
    /\ threadId = Null
    /\ streamingContent = <<>>
    /\ thinkingContent = <<>>
    /\ isThinking = FALSE
    /\ currentToolCall = Null
    /\ isConnected = FALSE
    /\ accumulatedContentRef = <<>>
    /\ pendingMessageRef = NoPending
    /\ currentThreadIdRef = Null
    \* the mount effect has run connect(null)
    /\ sockets = [s \in 1..MaxSockets |->
                    IF s = 1 THEN [readyState |-> "CONNECTING", path |-> "new"]
                    ELSE NoSocket]
    /\ wsRef = 1
    /\ nextSocket = 2
    /\ sent = <<>>
    /\ switchReq = NoSwitch
    /\ refreshing = {}
    /\ editReq = NoEdit
    /\ feedbackReq = NoFeedback
    /\ settled = Null
    /\ fetched = <<>>
    /\ AuxInit
    /\ callLog = <<>>
    /\ overwritten = {}
    /\ g = Fresh
    /\ last = "mount"
    /\ steps = 0

\* ------------------------------------------------------ socket handlers

\* ws.onopen
OnOpen(s) ==
    /\ sockets[s].readyState = "CONNECTING"
    /\ isConnected' = TRUE
    /\ sockets' = [sockets EXCEPT ![s].readyState = "OPEN"]
    /\ IF pendingMessageRef # NoPending
       THEN /\ Len(messages) < MaxMsgs
            /\ pendingMessageRef' = AfterFlush(pendingMessageRef)
            /\ sendMessageInternal(s, pendingMessageRef.content,
                                   pendingMessageRef.projectKey, pendingMessageRef.call)
            /\ g' = AfterSend
       ELSE /\ UNCHANGED <<messages, isStreaming, isThinking, thinkingContent,
                           streamingContent, currentToolCall, accumulatedContentRef,
                           sent, pendingMessageRef, g>>
    /\ Did("open")
    /\ UNCHANGED auxVars
    /\ UNCHANGED httpVars
    /\ UNCHANGED <<threadId, wsRef, currentThreadIdRef, nextSocket, switchReq,
                   refreshing, callLog, overwritten>>

\* ws.onclose, after close() was called on the socket
OnClose(s) ==
    /\ sockets[s].readyState = "CLOSING"
    /\ sockets' = [sockets EXCEPT ![s].readyState = "CLOSED"]
    /\ isConnected' = FALSE
    /\ Did("close")
    /\ UNCHANGED auxVars
    /\ UNCHANGED httpVars
    /\ UNCHANGED <<messages, isStreaming, threadId, streamingContent, thinkingContent,
                   isThinking, currentToolCall, refVars, nextSocket, sent, switchReq,
                   refreshing, callLog, overwritten, g>>

\* ws.onclose, the server or the network ended the connection
OnServerClose(s) ==
    /\ sockets[s].readyState \in {"CONNECTING", "OPEN"}
    /\ sockets' = [sockets EXCEPT ![s].readyState = "CLOSED"]
    /\ isConnected' = FALSE
    /\ Did("serverClose")
    /\ UNCHANGED auxVars
    /\ UNCHANGED httpVars
    /\ UNCHANGED <<messages, isStreaming, threadId, streamingContent, thinkingContent,
                   isThinking, currentToolCall, refVars, nextSocket, sent, switchReq,
                   refreshing, callLog, overwritten, g>>

\* ws.onmessage, case 'init'
OnInit(s, tid) ==
    /\ CanDeliver(s)
    /\ IF tid # Null
       THEN threadId' = tid /\ currentThreadIdRef' = tid
       ELSE UNCHANGED <<threadId, currentThreadIdRef>>
    /\ g' = IF g.shape = "F0" /\ tid # Null
            THEN [g EXCEPT !.shape = "FI", !.thread = tid]
            ELSE Broken
    /\ Did("init")
    /\ UNCHANGED auxVars
    /\ UNCHANGED httpVars
    /\ UNCHANGED <<messages, isStreaming, streamingContent, thinkingContent, isThinking,
                   currentToolCall, isConnected, wsRef, accumulatedContentRef,
                   pendingMessageRef, netVars, callLog, overwritten>>

\* ws.onmessage, case 'thinking'
OnThinking(s, d) ==
    /\ CanDeliver(s)
    /\ Len(thinkingContent) + Len(d) <= MaxThink
    /\ isThinking' = TRUE
    /\ thinkingContent' = IF d # <<>> THEN thinkingContent \o d ELSE thinkingContent
    /\ g' = IF g.shape \in {"S0", "ST"}
            THEN [g EXCEPT !.shape = "ST", !.thinks = @ \o d]
            ELSE Broken
    /\ Did("thinking")
    /\ UNCHANGED auxVars
    /\ UNCHANGED httpVars
    /\ UNCHANGED <<messages, isStreaming, threadId, streamingContent, currentToolCall,
                   isConnected, refVars, netVars, callLog, overwritten>>

\* what a stream/content delta does to the accumulated answer
Accumulate_Replace(acc, d) == IF d # <<>> THEN d ELSE acc

Accumulate(acc, d) == IF d # <<>> THEN acc \o d ELSE acc

\* ws.onmessage, case 'stream' / case 'content'
OnStream(s, kind, d) ==
    /\ CanDeliver(s)
    /\ Len(accumulatedContentRef) + Len(d) <= MaxLen
    /\ isThinking' = FALSE
    /\ accumulatedContentRef' = Accumulate(accumulatedContentRef, d)
    /\ streamingContent' = IF d # <<>> THEN accumulatedContentRef' ELSE streamingContent
    /\ g' = IF g.shape \in {"S0", "ST", "SC"}
            THEN [g EXCEPT !.shape = "SC", !.deltas = @ \o d]
            ELSE IF g.shape \in {"FI", "FC"}
            THEN [g EXCEPT !.shape = "FC", !.deltas = @ \o d]
            ELSE Broken
    /\ Did("stream")
    /\ UNCHANGED auxVars
    /\ UNCHANGED httpVars
    /\ UNCHANGED <<messages, isStreaming, threadId, thinkingContent, currentToolCall,
                   isConnected, wsRef, pendingMessageRef, currentThreadIdRef, netVars,
                   callLog, overwritten>>

\* case 'tool_call': accumulatedContentRef.current = ''; setStreamingContent('')
AfterToolCall_Keep(acc) == acc

AfterToolCall(acc) == <<>>

\* ws.onmessage, case 'tool_call'
OnToolCall(s, tool) ==
    /\ CanDeliver(s)
    /\ accumulatedContentRef' = AfterToolCall(accumulatedContentRef)
    /\ streamingContent' = AfterToolCall(streamingContent)
    /\ isThinking' = FALSE
    /\ thinkingContent' = <<>>
    /\ currentToolCall' = IF tool # Null THEN tool ELSE currentToolCall
    /\ g' = [Shape("TC") EXCEPT !.deltas = accumulatedContentRef]
    /\ Did("tool_call")
    /\ UNCHANGED auxVars
    /\ UNCHANGED httpVars
    /\ UNCHANGED <<messages, isStreaming, threadId, isConnected, wsRef,
                   pendingMessageRef, currentThreadIdRef, netVars, callLog, overwritten>>

\* ws.onmessage, case 'tool_result'
OnToolResult(s) ==
    /\ CanDeliver(s)
    /\ currentToolCall' = Null
    /\ isThinking' = TRUE
    /\ g' = Broken
    /\ Did("tool_result")
    /\ UNCHANGED auxVars
    /\ UNCHANGED httpVars
    /\ UNCHANGED <<messages, isStreaming, threadId, streamingContent, thinkingContent,
                   isConnected, refVars, netVars, callLog, overwritten>>

\* refreshConversation(targetThreadId): the fetch it starts, if any
refreshConversation(targetThreadId) ==
    LET resolvedThreadId == targetThreadId
    IN IF resolvedThreadId = Null THEN refreshing ELSE refreshing \cup {resolvedThreadId}

\* the setMessages updater of case 'end'
Finalize_AlwaysPush(prev, filteredContent, userMessageId, assistantMessageId) ==
    LET lastUserIndex == LastUserIndex(prev)
        newMessages == IF userMessageId # Null /\ lastUserIndex # 0
                          /\ prev[lastUserIndex].id = Null
                       THEN [prev EXCEPT ![lastUserIndex].id = userMessageId]
                       ELSE prev
    IN Append(newMessages, AssistantMessage(filteredContent, assistantMessageId))

Finalize_DropId(prev, filteredContent, userMessageId, assistantMessageId) ==
    LET lastUserIndex == LastUserIndex(prev)
        newMessages == IF userMessageId # Null /\ lastUserIndex # 0
                          /\ prev[lastUserIndex].id = Null
                       THEN [prev EXCEPT ![lastUserIndex].id = userMessageId]
                       ELSE prev
    IN IF filteredContent # <<>>
       THEN Append(newMessages, AssistantMessage(filteredContent, Null))
       ELSE newMessages

Finalize(prev, filteredContent, userMessageId, assistantMessageId) ==
    LET lastUserIndex == LastUserIndex(prev)
        newMessages == IF userMessageId # Null /\ lastUserIndex # 0
                          /\ prev[lastUserIndex].id = Null
                       THEN [prev EXCEPT ![lastUserIndex].id = userMessageId]
                       ELSE prev
    IN IF filteredContent # <<>>
       THEN Append(newMessages, AssistantMessage(filteredContent, assistantMessageId))
       ELSE newMessages

\* case 'end': accumulatedContentRef.current = ''; setStreamingContent('')
AfterEnd_Keep(buf) == buf

AfterEnd(buf) == <<>>

\* ws.onmessage, case 'end'
OnEnd(s, userMessageId, assistantMessageId) ==
    /\ CanDeliver(s)
    /\ Len(messages) < MaxMsgs
    /\ accumulatedContentRef' = AfterEnd(accumulatedContentRef)
    /\ streamingContent' = AfterEnd(streamingContent)
    /\ isThinking' = FALSE
    /\ currentToolCall' = Null
    /\ isStreaming' = FALSE
    /\ messages' = Finalize(messages, filterThinkTags(accumulatedContentRef),
                            userMessageId, assistantMessageId)
    /\ refreshing' = refreshConversation(currentThreadIdRef)
    /\ g' = [ (IF g.shape \in {"S0", "ST", "SC", "FC"} THEN g ELSE Broken) EXCEPT
                 !.shape = IF g.shape \in {"S0", "ST", "SC"} THEN "SE"
                           ELSE IF g.shape = "FC" THEN "FE"
                           ELSE IF g.shape = "TC" THEN "TE"
                           ELSE "E",
                 !.base = Len(messages),
                 !.assistants = AssistantCount(messages),
                 !.final = filterThinkTags(accumulatedContentRef),
                 !.aid = assistantMessageId,
                 !.uid = userMessageId ]
    /\ Did("end")
    /\ UNCHANGED auxVars
    /\ UNCHANGED httpVars
    /\ UNCHANGED <<threadId, thinkingContent, isConnected, wsRef, pendingMessageRef,
                   currentThreadIdRef, sockets, nextSocket, sent, switchReq,
                   callLog, overwritten>>

\* ws.onmessage, case 'error'
OnError(s) ==
    /\ CanDeliver(s)
    /\ currentToolCall' = Null
    /\ isStreaming' = FALSE
    /\ g' = Broken
    /\ Did("error")
    /\ UNCHANGED auxVars
    /\ UNCHANGED httpVars
    /\ UNCHANGED <<messages, threadId, streamingContent, thinkingContent, isThinking,
                   isConnected, refVars, netVars, callLog, overwritten>>

\* ws.onmessage, JSON.parse throws or the type has no case
OnIgnored(s) ==
    /\ CanDeliver(s)
    /\ g' = Broken
    /\ Did("ignored")
    /\ UNCHANGED auxVars
    /\ UNCHANGED httpVars
    /\ UNCHANGED <<stateVars, refVars, netVars, callLog, overwritten>>

\* the response of the fetch started by refreshConversation
RefreshResponse(t, ok, data) ==
    /\ t \in refreshing
    /\ refreshing' = refreshing \ {t}
    /\ messages' = IF ok THEN FilterMessages(data) ELSE messages
    /\ g' = IF g.shape \in Counting THEN g ELSE Broken
    /\ Did("refreshed")
    /\ UNCHANGED auxVars
    /\ UNCHANGED httpVars
    /\ UNCHANGED <<isStreaming, threadId, streamingContent, thinkingContent, isThinking,
                   currentToolCall, isConnected, refVars, sockets, nextSocket, sent,
                   switchReq, callLog, overwritten>>

\* ------------------------------------------------------ user operations

\* sendMessage(content, projectKey)
sendMessage(content, projectKey) ==
    /\ Len(callLog) < MaxSends
    /\ callLog' = Append(callLog, [content |-> content, projectKey |-> projectKey,
                                   queued |-> ~IsOpen(wsRef),
                                   thread |-> currentThreadIdRef])
    /\ IF ~IsOpen(wsRef)
       THEN /\ pendingMessageRef' =
                  QueuePending(pendingMessageRef,
                               [content |-> content, projectKey |-> projectKey,
                                call |-> Len(callLog) + 1])
            /\ overwritten' = IF pendingMessageRef # NoPending
                              THEN overwritten \cup {pendingMessageRef.call}
                              ELSE overwritten
            /\ connect(currentThreadIdRef)
            /\ g' = Broken
            /\ UNCHANGED <<stateVars, accumulatedContentRef, sent>>
       ELSE /\ Len(messages) < MaxMsgs
            /\ sendMessageInternal(wsRef, content, projectKey, Len(callLog) + 1)
            /\ g' = AfterSend
            /\ UNCHANGED <<threadId, isConnected, wsRef, pendingMessageRef,
                           currentThreadIdRef, sockets, nextSocket, overwritten>>
    /\ Did("sendMessage")
    /\ UNCHANGED auxVars
    /\ UNCHANGED httpVars
    /\ UNCHANGED <<switchReq, refreshing>>

\* stopStreaming() makes no setMessages call: the partial answer is not stored
AfterStop_Persist(prev, partial) ==
    IF partial # <<>> THEN Append(prev, AssistantMessage(partial, Null)) ELSE prev

AfterStop(prev, partial) == prev

\* stopStreaming()
stopStreaming ==
    /\ messages' = AfterStop(messages, accumulatedContentRef)
    /\ sockets' = IF wsRef # NoWs THEN CloseSocket(sockets, wsRef) ELSE sockets
    /\ isStreaming' = FALSE
    /\ currentToolCall' = Null
    /\ g' = Broken
    /\ Did("stopStreaming")
    /\ UNCHANGED auxVars
    /\ UNCHANGED httpVars
    /\ UNCHANGED <<threadId, streamingContent, thinkingContent, isThinking,
                   isConnected, refVars, nextSocket, sent, switchReq, refreshing,
                   callLog, overwritten>>

\* loadConversation(newMessages, newThreadId)
loadConversation(newMessages, newThreadId) ==
    /\ messages' = FilterMessages(newMessages)
    /\ threadId' = newThreadId
    /\ streamingContent' = <<>>
    /\ currentToolCall' = Null
    /\ connect(newThreadId)
    /\ g' = Broken
    /\ Did("loadConversation")
    /\ UNCHANGED auxVars
    /\ UNCHANGED httpVars
    /\ UNCHANGED <<isStreaming, thinkingContent, isThinking, isConnected,
                   accumulatedContentRef, pendingMessageRef, sent, switchReq,
                   refreshing, callLog, overwritten>>

\* startNewChat()
startNewChat ==
    /\ messages' = <<>>
    /\ threadId' = Null
    /\ streamingContent' = <<>>
    /\ currentToolCall' = Null
    /\ connect(Null)
    /\ g' = Broken
    /\ Did("startNewChat")
    /\ UNCHANGED auxVars
    /\ UNCHANGED httpVars
    /\ UNCHANGED <<isStreaming, thinkingContent, isThinking, isConnected,
                   accumulatedContentRef, pendingMessageRef, sent, switchReq,
                   refreshing, callLog, overwritten>>

\* switchBranch(messageId, branchIndex), up to the PUT request
switchBranch(messageId, branchIndex) ==
    /\ switchReq = NoSwitch
    /\ switchReq' = IF threadId = Null THEN NoSwitch
                    ELSE [messageId |-> messageId, branchIndex |-> branchIndex,
                          threadId |-> threadId, stage |-> "put"]
    /\ Did("switchBranch")
    /\ UNCHANGED auxVars
    /\ settled' = IF threadId = Null THEN "fulfilled" ELSE settled
    /\ UNCHANGED <<editReq, feedbackReq, fetched>>
    /\ UNCHANGED <<stateVars, refVars, sockets, nextSocket, sent, refreshing,
                   callLog, overwritten, g>>

\* switchBranch after the PUT: if (!response.ok) throw, else go on to the reload
AfterPut_IgnoreStatus(req, outcome) ==
    IF outcome # "failed" THEN [req EXCEPT !.stage = "get"]
    ELSE [messageId |-> Null, branchIndex |-> 0, threadId |-> Null, stage |-> "none"]

AfterPut(req, outcome) ==
    IF outcome = "ok" THEN [req EXCEPT !.stage = "get"]
    ELSE [messageId |-> Null, branchIndex |-> 0, threadId |-> Null, stage |-> "none"]

\* switchBranch, the response of PUT /messages/{id}/switch-branch/{index}
SwitchPutResponse(outcome) ==
    /\ switchReq # NoSwitch
    /\ switchReq.stage = "put"
    /\ switchReq' = AfterPut(switchReq, outcome)
    /\ Did("switchBranch:put:" \o outcome)
    /\ UNCHANGED auxVars
    /\ settled' = IF AfterPut(switchReq, outcome) = NoSwitch THEN "fulfilled" ELSE settled
    /\ UNCHANGED <<editReq, feedbackReq, fetched>>
    /\ UNCHANGED <<stateVars, refVars, sockets, nextSocket, sent, refreshing,
                   callLog, overwritten, g>>

\* switchBranch, the response of GET /conversations/{threadId}
SwitchGetResponse(outcome, data) ==
    /\ switchReq # NoSwitch
    /\ switchReq.stage = "get"
    /\ switchReq' = NoSwitch
    /\ messages' = IF outcome = "ok" THEN FilterMessages(data) ELSE messages
    /\ Did("switchBranch:get:" \o outcome)
    /\ UNCHANGED auxVars
    /\ settled' = "fulfilled"
    /\ fetched' = IF outcome = "ok" THEN data ELSE fetched
    /\ UNCHANGED <<editReq, feedbackReq>>
    /\ g' = IF g.shape \in Counting /\ outcome # "ok" THEN g ELSE Broken
    /\ UNCHANGED <<isStreaming, threadId, streamingContent, thinkingContent, isThinking,
                   currentToolCall, isConnected, refVars, sockets, nextSocket, sent,
                   refreshing, callLog, overwritten>>

\* prev.findIndex(m => m.id === messageId), 0 when there is none
RECURSIVE FindIndexFrom(_, _, _)
FindIndexFrom(prev, messageId, i) ==
    IF i > Len(prev) THEN 0
    ELSE IF prev[i].id = messageId THEN i
    ELSE FindIndexFrom(prev, messageId, i + 1)

FindIndex(prev, messageId) == FindIndexFrom(prev, messageId, 1)

\* the setMessages updater of editMessage: slice(0, index + 1), content replaced
EditTruncate_KeepTail(prev, messageId, newContent) ==
    LET index == FindIndex(prev, messageId)
    IN IF index = 0 THEN prev
       ELSE [prev EXCEPT ![index].content = newContent]

EditTruncate(prev, messageId, newContent) ==
    LET index == FindIndex(prev, messageId)
    IN IF index = 0 THEN prev
       ELSE [SubSeq(prev, 1, index) EXCEPT ![index].content = newContent]

\* editMessage(messageId, newContent), up to the PUT request
editMessage(messageId, newContent) ==
    /\ editReq = NoEdit
    /\ messages' = EditTruncate(messages, messageId, newContent)
    /\ isStreaming' = TRUE
    /\ isThinking' = TRUE
    /\ thinkingContent' = <<>>
    /\ streamingContent' = <<>>
    /\ currentToolCall' = Null
    /\ accumulatedContentRef' = <<>>
    /\ editReq' = [messageId |-> messageId, newContent |-> newContent, stage |-> "put"]
    /\ g' = Broken
    /\ Did("editMessage")
    /\ UNCHANGED auxVars
    /\ UNCHANGED <<threadId, isConnected, wsRef, pendingMessageRef, currentThreadIdRef,
                   netVars, feedbackReq, settled, fetched, callLog, overwritten>>

\* JSON.stringify({action: 'edit', message: newContent}) on socket ws
EditPayload(ws, newContent) ==
    [sock |-> ws, message |-> newContent, project_key |-> Null,
     action |-> "edit", call |-> 0]

\* the catch block of editMessage: setIsStreaming(false); setIsThinking(false)
EditCatch_Keep(flag) == flag

EditCatch(flag) == FALSE

\* editMessage, the response of PUT /messages/{id}/edit
EditPutResponse(outcome) ==
    /\ editReq # NoEdit
    /\ editReq.stage = "put"
    /\ editReq' = NoEdit
    /\ IF outcome = "ok" /\ IsOpen(wsRef)
       THEN /\ sent' = Append(sent, EditPayload(wsRef, editReq.newContent))
            /\ UNCHANGED <<isStreaming, isThinking>>
       ELSE /\ isStreaming' = EditCatch(isStreaming)
            /\ isThinking' = EditCatch(isThinking)
            /\ UNCHANGED sent
    /\ settled' = "fulfilled"
    /\ g' = Broken
    /\ Did("editMessage:put:" \o outcome)
    /\ UNCHANGED auxVars
    /\ UNCHANGED <<messages, threadId, streamingContent, thinkingContent, currentToolCall,
                   isConnected, refVars, sockets, nextSocket, switchReq, refreshing,
                   feedbackReq, fetched, callLog, overwritten>>

\* submitFeedback(messageId, feedback, note), up to the POST request
submitFeedback(messageId, feedback, note) ==
    /\ feedbackReq = NoFeedback
    /\ feedbackReq' = [messageId |-> messageId, feedback |-> feedback, note |-> note,
                       stage |-> "post"]
    /\ Did("submitFeedback")
    /\ UNCHANGED auxVars
    /\ UNCHANGED <<stateVars, refVars, netVars, editReq, settled, fetched,
                   callLog, overwritten, g>>

\* prev.map(msg => msg.id === messageId ? {...msg, feedback, feedbackNote: note} : msg)
ApplyFeedback_All(prev, messageId, feedback, note) ==
    [i \in 1..Len(prev) |-> [prev[i] EXCEPT !.feedback = feedback, !.feedbackNote = note]]

ApplyFeedback(prev, messageId, feedback, note) ==
    [i \in 1..Len(prev) |->
        IF prev[i].id = messageId
        THEN [prev[i] EXCEPT !.feedback = feedback, !.feedbackNote = note]
        ELSE prev[i]]

\* submitFeedback, the response of POST /messages/{id}/feedback
FeedbackResponse(outcome) ==
    /\ feedbackReq # NoFeedback
    /\ feedbackReq.stage = "post"
    /\ feedbackReq' = NoFeedback
    /\ messages' = IF outcome = "ok"
                   THEN ApplyFeedback(messages, feedbackReq.messageId,
                                      feedbackReq.feedback, feedbackReq.note)
                   ELSE messages
    /\ settled' = "fulfilled"
    /\ g' = IF g.shape \in Counting /\ outcome # "ok" THEN g ELSE Broken
    /\ Did("submitFeedback:post:" \o outcome)
    /\ UNCHANGED auxVars
    /\ UNCHANGED <<isStreaming, threadId, streamingContent, thinkingContent, isThinking,
                   currentToolCall, isConnected, refVars, netVars, editReq, fetched,
                   callLog, overwritten>>

\* -------------------------------------------------------- specification
Sockets == 1..MaxSockets
Deltas == {<<>>} \cup {<<t>> : t \in Tokens}
ThinkDeltas == {<<>>} \cup {<<t>> : t \in ThinkTokens}
Outcomes == {"ok", "rejected", "failed"}
PlainDeltas == {<<"x">>}
EndIdPairs == {<<Null, Null>>, <<"U1", "A1">>}

\* The stream assembler and the send path on the mounted connection.
Next ==
    \/ \E s \in Sockets : OnOpen(s)
    \/ \E s \in Sockets : OnClose(s)
    \/ \E s \in Sockets : OnServerClose(s)
    \/ \E s \in Sockets, tid \in Threads \cup {Null} : OnInit(s, tid)
    \/ \E s \in Sockets, d \in ThinkDeltas : OnThinking(s, d)
    \/ \E s \in Sockets, kind \in {"stream", "content"}, d \in Deltas : OnStream(s, kind, d)
    \/ \E s \in Sockets, tool \in Tools \cup {Null} : OnToolCall(s, tool)
    \/ \E s \in Sockets : OnToolResult(s)
    \/ \E s \in Sockets, ids \in EndIdPairs : OnEnd(s, ids[1], ids[2])
    \/ \E s \in Sockets : OnError(s)
    \/ \E s \in Sockets : OnIgnored(s)
    \/ \E t \in Threads, ok \in BOOLEAN, data \in ServerConversations :
          RefreshResponse(t, ok, data)
    \/ \E c \in Contents, k \in ProjectKeys : sendMessage(c, k)
    \/ stopStreaming

Spec == Init /\ [][Next]_vars

\* The connection lifecycle: queued sends, reconnects, conversation switches.
NextSession ==
    \/ \E s \in Sockets : OnOpen(s)
    \/ \E s \in Sockets : OnClose(s)
    \/ \E s \in Sockets : OnServerClose(s)
    \/ \E s \in Sockets, d \in PlainDeltas : OnStream(s, "stream", d)
    \/ \E s \in Sockets, u \in UserIds \cup {Null}, a \in AssistantIds \cup {Null} :
          OnEnd(s, u, a)
    \/ \E t \in Threads, ok \in BOOLEAN, data \in ServerConversations :
          RefreshResponse(t, ok, data)
    \/ \E c \in Contents, k \in ProjectKeys : sendMessage(c, k)
    \/ stopStreaming
    \/ \E ms \in ServerConversations, t \in Threads : loadConversation(ms, t)
    \/ startNewChat

SpecSession == Init /\ [][NextSession]_vars

\* The branch operations and the conversation refetches they share with 'end'.
NextBranch ==
    \/ \E s \in Sockets : OnOpen(s)
    \/ \E s \in Sockets, tid \in Threads \cup {Null} : OnInit(s, tid)
    \/ \E s \in Sockets, u \in UserIds \cup {Null}, a \in AssistantIds \cup {Null} :
          OnEnd(s, u, a)
    \/ \E t \in Threads, ok \in BOOLEAN, data \in ServerConversations :
          RefreshResponse(t, ok, data)
    \/ \E c \in Contents, k \in ProjectKeys : sendMessage(c, k)
    \/ \E ms \in ServerConversations, t \in Threads : loadConversation(ms, t)
    \/ startNewChat
    \/ \E m \in AssistantIds, b \in BranchIndexes : switchBranch(m, b)
    \/ \E o \in Outcomes : SwitchPutResponse(o)
    \/ \E o \in Outcomes, data \in ServerConversations : SwitchGetResponse(o, data)

SpecBranch == Init /\ [][NextBranch]_vars

\* The operations that call the HTTP collaborator: edit, feedback, branch switch.
MessageIds == {"U1", "A1", "U9"}
FeedbackInputs == {<<"positive", Null>>, <<"negative", "note">>}

NextHttp ==
    \/ \E s \in Sockets : OnOpen(s)
    \/ \E s \in Sockets : OnServerClose(s)
    \/ \E ms \in ServerConversations, t \in Threads : loadConversation(ms, t)
    \/ \E m \in MessageIds, c \in Contents : editMessage(m, c)
    \/ \E o \in Outcomes : EditPutResponse(o)
    \/ \E m \in MessageIds, f \in FeedbackInputs : submitFeedback(m, f[1], f[2])
    \/ \E o \in Outcomes : FeedbackResponse(o)
    \/ \E m \in AssistantIds, b \in BranchIndexes : switchBranch(m, b)
    \/ \E o \in Outcomes : SwitchPutResponse(o)
    \/ \E o \in Outcomes, data \in ServerConversations : SwitchGetResponse(o, data)

SpecHttp == Init /\ [][NextHttp]_vars

\* One generation on the mounted connection, from the state in which that
\* connection has opened: sends and the events init, thinking, stream, content, end.
InitOpen ==
    /\ messages = <<>>
    /\ isStreaming = FALSE
    /\ threadId = Null
    /\ streamingContent = <<>>
    /\ thinkingContent = <<>>
    /\ isThinking = FALSE
    /\ currentToolCall = Null
    /\ isConnected = TRUE
    /\ accumulatedContentRef = <<>>
    /\ pendingMessageRef = NoPending
    /\ currentThreadIdRef = Null
    /\ sockets = [s \in 1..MaxSockets |->
                    IF s = 1 THEN [readyState |-> "OPEN", path |-> "new"]
                    ELSE NoSocket]
    /\ wsRef = 1
    /\ nextSocket = 2
    /\ sent = <<>>
    /\ switchReq = NoSwitch
    /\ refreshing = {}
    /\ editReq = NoEdit
    /\ feedbackReq = NoFeedback
    /\ settled = Null
    /\ fetched = <<>>
    /\ AuxInit
    /\ callLog = <<>>
    /\ overwritten = {}
    /\ g = Fresh
    /\ last = "open"
    /\ steps = 0

NextGeneration ==
    \/ \E s \in Sockets, tid \in {"T1", Null} : OnInit(s, tid)
    \/ \E s \in Sockets, d \in ThinkDeltas : OnThinking(s, d)
    \/ \E s \in Sockets, kind \in {"stream", "content"}, d \in Deltas : OnStream(s, kind, d)
    \/ \E s \in Sockets, ids \in EndIdPairs : OnEnd(s, ids[1], ids[2])
    \/ \E t \in Threads, ok \in BOOLEAN, data \in ServerConversations :
          RefreshResponse(t, ok, data)
    \/ \E c \in Contents : sendMessage(c, "P1")

SpecGeneration == InitOpen /\ [][NextGeneration]_vars

\* MessageInput.handleSubmit: the trimmed text is sent unless it is empty or a
\* generation is streaming (isLoading)
handleSubmit(message, projectKey) ==
    /\ Trim(message) # <<>>
    /\ ~isStreaming
    /\ sendMessage(Trim(message), projectKey)

\* The steps the browser and the backend take on their own: socket
\* notifications, stream events, fetch responses.
NextDelivery ==
    \/ \E s \in Sockets : OnOpen(s)
    \/ \E s \in Sockets : OnClose(s)
    \/ \E s \in Sockets, d \in PlainDeltas : OnStream(s, "content", d)
    \/ \E s \in Sockets, ids \in EndIdPairs : OnEnd(s, ids[1], ids[2])
    \/ \E s \in Sockets : OnError(s)
    \/ \E t \in Threads, ok \in BOOLEAN, data \in ServerConversations :
          RefreshResponse(t, ok, data)

\* The session as the chat page drives it. Deliveries that are possible do
\* happen; a lost connection and the user's actions may or may not.
NextLive ==
    \/ NextDelivery
    \/ \E s \in Sockets : OnServerClose(s)
    \/ \E c \in Contents, k \in ProjectKeys : handleSubmit(c, k)
    \/ \E ms \in ServerConversations, t \in Threads : loadConversation(ms, t)
    \/ startNewChat

SpecLive == Init /\ [][NextLive]_vars /\ WF_vars(NextDelivery)

\* ------------------------------------------------ chunked-HTTP stream decoder
\* The response body is text, one character per element; "nl" is the newline
\* and "sp" the space.  A JSON object is written "{", its type, "}".
Marker == <<"d", "a", "t", "a", ":", "sp">>
EventTypes == {"stream", "end"}
RecordKinds == EventTypes \cup {"noise", "empty", "malformed"}

\* the line of one record, as the server writes it
RecordLine(kind) ==
    CASE kind \in EventTypes -> Marker \o <<"{", kind, "}">>
      [] kind = "noise"      -> <<"{", "stream", "}">>
      [] kind = "empty"      -> Marker
      [] kind = "malformed"  -> Marker \o <<"{", "stream">>

\* a body of records, each terminated by a blank line
RECURSIVE BodyOf(_)
BodyOf(recs) ==
    IF recs = <<>> THEN <<>>
    ELSE RecordLine(Head(recs)) \o <<"nl", "nl">> \o BodyOf(Tail(recs))

RecordLists == UNION {[1..n -> RecordKinds] : n \in 1..MaxRecords}

\* String.prototype.split('\n'): the pieces between newlines, never empty
RECURSIVE Split(_)
Split(text) ==
    IF text = <<>> THEN << <<>> >>
    ELSE LET r == Split(Tail(text)) IN
         IF Head(text) = "nl" THEN << <<>> >> \o r
         ELSE << <<Head(text)>> \o r[1] >> \o Tail(r)

\* line.startsWith(prefix)
StartsWith(line, prefix) ==
    /\ Len(line) >= Len(prefix)
    /\ SubSeq(line, 1, Len(prefix)) = prefix

\* line.slice(6)
Slice6(line) == SubSeq(line, Len(Marker) + 1, Len(line))

\* JSON.parse: the event of a well-formed object, a thrown SyntaxError otherwise
SyntaxError == "SyntaxError"
JsonParse(text) ==
    IF Len(text) = 3 /\ text[1] = "{" /\ text[3] = "}" /\ text[2] \in EventTypes
    THEN text[2]
    ELSE SyntaxError

\* the for-loop over the complete lines: the events handed to the switch;
\* a line without the marker is skipped, a parse error is caught and logged
RECURSIVE HandleLines(_)
HandleLines(lines) ==
    IF lines = <<>> THEN <<>>
    ELSE LET line == Head(lines) IN
         (IF StartsWith(line, Marker) /\ JsonParse(Slice6(line)) # SyntaxError
          THEN <<JsonParse(Slice6(line))>>
          ELSE <<>>) \o HandleLines(Tail(lines))

\* buffer = lines.pop(): the text after the last newline waits for the next chunk
Carry_Drop(pieces) == <<>>

Carry(pieces) == pieces[Len(pieces)]

\* the fetch of the stream has answered: its body is about to be read
StartStream(recs) ==
    /\ ~reading
    /\ reading' = TRUE
    /\ records' = recs
    /\ body' = BodyOf(recs)
    /\ buffer' = <<>>
    /\ dispatched' = <<>>
    /\ carried' = FALSE
    /\ last' = "fetch:stream"
    /\ UNCHANGED <<stateVars, refVars, netVars, httpVars, callLog, overwritten, g, steps,
                   reconnectVars>>

\* reader.read() yields the next k characters of the body
ReadChunk(k) ==
    /\ reading
    /\ k \in 1..Len(body)
    /\ LET pieces == Split(buffer \o SubSeq(body, 1, k)) IN
       /\ buffer' = Carry(pieces)
       /\ dispatched' = dispatched \o HandleLines(SubSeq(pieces, 1, Len(pieces) - 1))
       /\ carried' = (carried \/ buffer' # <<>>)
    /\ body' = SubSeq(body, k + 1, Len(body))
    /\ last' = "chunk"
    /\ UNCHANGED <<reading, records>>
    /\ UNCHANGED <<stateVars, refVars, netVars, httpVars, callLog, overwritten, g, steps,
                   reconnectVars>>

\* reader.read() reports done: the loop ends
ReadDone ==
    /\ reading
    /\ body = <<>>
    /\ reading' = FALSE
    /\ last' = "done"
    /\ UNCHANGED <<body, buffer, dispatched, records, carried>>
    /\ UNCHANGED <<stateVars, refVars, netVars, httpVars, callLog, overwritten, g, steps,
                   reconnectVars>>

NextDecoder ==
    \/ \E recs \in RecordLists : StartStream(recs)
    \/ \E k \in 1..Len(body) : ReadChunk(k)
    \/ ReadDone

SpecDecoder == Init /\ [][NextDecoder]_vars

\* ------------------------------------------- the auto-reconnecting useWebSocket
\* Sockets and timers are numbered in the order of their creation; 0 is null.
\* the body of connect(): nothing while the current handle is open, otherwise a
\* new socket that becomes the current handle (an earlier one is left as it is)
HookConnect ==
    IF hookWsRef # 0 /\ hookSockets[hookWsRef] = "OPEN"
    THEN UNCHANGED <<hookSockets, hookWsRef, nextHookSocket>>
    ELSE /\ nextHookSocket <= MaxSockets
         /\ hookSockets' = [hookSockets EXCEPT ![nextHookSocket] = "CONNECTING"]
         /\ hookWsRef' = nextHookSocket
         /\ nextHookSocket' = nextHookSocket + 1

\* ws.onclose: the flag drops and the reconnect timer is armed, its id stored
HookClosed(s) ==
    /\ hookSockets' = [hookSockets EXCEPT ![s] = "CLOSED"]
    /\ hookIsConnected' = FALSE
    /\ timers' = timers \cup {nextTimer}
    /\ reconnectTimeoutRef' = nextTimer
    /\ nextTimer' = nextTimer + 1
    /\ UNCHANGED <<hookWsRef, nextHookSocket, disconnected>>

\* the component calls connect()
HookUserConnect ==
    /\ Did("hook:connect")
    /\ HookConnect
    /\ disconnected' = FALSE
    /\ UNCHANGED <<hookIsConnected, reconnectTimeoutRef, timers, nextTimer>>
    /\ UNCHANGED <<stateVars, refVars, netVars, httpVars, callLog, overwritten, g, decoderVars>>

\* ws.onopen
HookOnOpen(s) ==
    /\ hookSockets[s] = "CONNECTING"
    /\ Did("hook:open")
    /\ hookSockets' = [hookSockets EXCEPT ![s] = "OPEN"]
    /\ hookIsConnected' = TRUE
    /\ UNCHANGED <<hookWsRef, reconnectTimeoutRef, timers, nextHookSocket, nextTimer,
                   disconnected>>
    /\ UNCHANGED <<stateVars, refVars, netVars, httpVars, callLog, overwritten, g, decoderVars>>

\* ws.onclose of a socket the hook closed itself
HookOnClose(s) ==
    /\ hookSockets[s] = "CLOSING"
    /\ Did("hook:close")
    /\ HookClosed(s)
    /\ UNCHANGED <<stateVars, refVars, netVars, httpVars, callLog, overwritten, g, decoderVars>>

\* ws.onclose of a socket the server or the network closed
HookServerClose(s) ==
    /\ hookSockets[s] \in {"CONNECTING", "OPEN"}
    /\ Did("hook:serverclose")
    /\ HookClosed(s)
    /\ UNCHANGED <<stateVars, refVars, netVars, httpVars, callLog, overwritten, g, decoderVars>>

\* the 3 s reconnect timer fires
HookTimer(t) ==
    /\ t \in timers
    /\ Did("hook:timer")
    /\ timers' = timers \ {t}
    /\ HookConnect
    /\ UNCHANGED <<hookIsConnected, reconnectTimeoutRef, nextTimer, disconnected>>
    /\ UNCHANGED <<stateVars, refVars, netVars, httpVars, callLog, overwritten, g, decoderVars>>

\* disconnect(), also run when the component unmounts
disconnect ==
    /\ Did("hook:disconnect")
    /\ timers' = IF reconnectTimeoutRef # 0 THEN timers \ {reconnectTimeoutRef} ELSE timers
    /\ hookSockets' = IF hookWsRef # 0 /\ hookSockets[hookWsRef] \in {"CONNECTING", "OPEN"}
                      THEN [hookSockets EXCEPT ![hookWsRef] = "CLOSING"]
                      ELSE hookSockets
    /\ hookWsRef' = 0
    /\ hookIsConnected' = FALSE
    /\ disconnected' = TRUE
    /\ UNCHANGED <<reconnectTimeoutRef, nextHookSocket, nextTimer>>
    /\ UNCHANGED <<stateVars, refVars, netVars, httpVars, callLog, overwritten, g, decoderVars>>

NextReconnect ==
    \/ HookUserConnect
    \/ \E s \in 1..MaxSockets : HookOnOpen(s)
    \/ \E s \in 1..MaxSockets : HookOnClose(s)
    \/ \E s \in 1..MaxSockets : HookServerClose(s)
    \/ \E t \in 1..MaxSteps : HookTimer(t)
    \/ disconnect

SpecReconnect == Init /\ [][NextReconnect]_vars

\* ================================================================ claims

SentCalls == {sent[i].call : i \in 1..Len(sent)}
MessageCalls == {messages[i].call : i \in 1..Len(messages)} \ {0}
TransmitCount(n) == Cardinality({i \in 1..Len(sent) : sent[i].call = n})
Idle == ~isStreaming /\ ~isThinking /\ currentToolCall = Null
LastMessage == messages[Len(messages)]

\* C1 as stated: after send, thinking*, (stream|content)*, end, the assistant
\* message appended at end holds the concatenated deltas with the <think>..</think>
\* segment removed, and thinkingContent is the concatenation of the thinking deltas.
C1_SegmentRemovedOnly ==
    g.shape = "SE" =>
        /\ Len(messages) = g.base + 1 =>
              /\ LastMessage.role = "assistant"
              /\ LastMessage.content = RemoveThink(g.deltas)
        /\ thinkingContent = g.thinks

\* C1 amended: the appended content is the concatenation of the deltas with every
\* <think>..</think> segment removed and leading and trailing whitespace trimmed;
\* when that text is empty no message is appended; thinkingContent is the
\* concatenation of the thinking deltas, unfiltered.
C1_FilteredConcatenation ==
    g.shape = "SE" =>
        LET want == filterThinkTags(g.deltas)
        IN /\ want # <<>> =>
                 /\ Len(messages) = g.base + 1
                 /\ LastMessage.role = "assistant"
                 /\ LastMessage.content = want
           /\ want = <<>> => Len(messages) = g.base
           /\ thinkingContent = g.thinks

C1_Witness ==
    /\ g.shape = "SE"
    /\ last = "end"
    /\ g.thinks # <<>>
    /\ Len(g.deltas) >= 2
    /\ filterThinkTags(g.deltas) # g.deltas
    /\ Len(messages) = g.base + 1

\* C2: a tool_call event leaves the answer buffer (accumulatedContentRef and
\* streamingContent) empty whatever it held; a tool_result event does not change it.
C2_ToolCallResetsBuffer ==
    [][ /\ last' = "tool_call" =>
              accumulatedContentRef' = <<>> /\ streamingContent' = <<>>
        /\ last' = "tool_result" =>
              UNCHANGED <<accumulatedContentRef, streamingContent>> ]_vars

C2_Witness ==
    /\ last = "tool_call"
    /\ g.shape = "TC"
    /\ g.deltas # <<>>
    /\ accumulatedContentRef = <<>>
    /\ streamingContent = <<>>

\* C3: a sendMessage that finds another send still queued replaces it: the
\* replaced call is never transmitted and never shows in messages, the queued send
\* is always the latest call, every payload carries its own call's content, and
\* right after an open every call that was not replaced has gone out exactly once.
C3_LastWriteWins ==
    /\ \A n \in overwritten : n \notin SentCalls /\ n \notin MessageCalls
    /\ pendingMessageRef # NoPending =>
          /\ pendingMessageRef.call = Len(callLog)
          /\ pendingMessageRef.content = callLog[Len(callLog)].content
    /\ \A i \in 1..Len(sent) : sent[i].message = callLog[sent[i].call].content
    /\ last = "open" =>
          \A n \in 1..Len(callLog) : n \notin overwritten => TransmitCount(n) = 1

C3_Witness ==
    /\ last = "open"
    /\ overwritten = {1}
    /\ Len(callLog) = 2
    /\ callLog[1].content # callLog[2].content
    /\ Len(sent) = 1
    /\ sent[1].call = 2
    /\ sent[1].message = callLog[2].content

C5_StopLeavesIdle ==
    [][ last' = "stopStreaming" =>
            /\ messages' = messages
            /\ ~isStreaming' /\ ~isThinking' /\ currentToolCall' = Null ]_vars

\* C6 as stated: on a fresh session init{T}, content+, end{A} appends exactly one
\* assistant message holding the concatenated deltas with id A, threadId is T and
\* the session is Idle.
C6_RawConcatenation ==
    g.shape = "FE" /\ g.aid # Null =>
        /\ Len(messages) = g.base + 1
        /\ LastMessage = AssistantMessage(g.deltas, g.aid)
        /\ threadId = g.thread
        /\ Idle

\* C6 amended: the one appended assistant message holds the concatenated deltas
\* after filterThinkTags (think segments removed, whitespace trimmed) with id A;
\* when that text is empty nothing is appended; threadId is T and the session Idle.
C6_FreshGeneration ==
    g.shape = "FE" =>
        LET want == filterThinkTags(g.deltas)
        IN /\ want # <<>> =>
                 /\ Len(messages) = g.base + 1
                 /\ LastMessage = AssistantMessage(want, g.aid)
           /\ want = <<>> => Len(messages) = g.base
           /\ threadId = g.thread
           /\ Idle

C6_Witness ==
    /\ g.shape = "FE"
    /\ last = "end"
    /\ Len(g.deltas) >= 2
    /\ g.aid = "A1"
    /\ threadId = "T1"
    /\ messages = <<AssistantMessage(g.deltas, "A1")>>

\* C7: an end event whose finalized content is empty appends no assistant message.
C7_EmptyEndAppendsNothing ==
    last = "end" /\ g.final = <<>> =>
        /\ Len(messages) = g.base
        /\ AssistantCount(messages) = g.assistants

C7_Witness ==
    /\ last = "end"
    /\ g.shape = "TE"
    /\ g.final = <<>>
    /\ messages # <<>>

\* C8: once threadId is assigned, a later init event does not change it.
C8_ThreadIdSetOnce ==
    [][ last' = "init" /\ threadId # Null => threadId' = threadId ]_vars

\* C9: a queued send is flushed exactly once: no call is ever transmitted twice, a
\* call still queued has not been transmitted, and an open leaves the queue empty.
C9_FlushedOnce ==
    /\ \A n \in 1..Len(callLog) : TransmitCount(n) <= 1
    /\ pendingMessageRef # NoPending => TransmitCount(pendingMessageRef.call) = 0
    /\ last = "open" => pendingMessageRef = NoPending

C9_Witness ==
    /\ last = "open"
    /\ IsOpen(wsRef)
    /\ pendingMessageRef = NoPending
    /\ Len(sent) = 1
    /\ callLog[sent[1].call].queued
    /\ sent[1].sock # wsRef

\* C10: sendMessage on an open connection appends one user message with the
\* content and no id, enters Thinking with empty buffers and no tool, and
\* transmits one payload {message: content, project_key: projectKey or null}.
C10_SendWhenOpen ==
    [][ last' = "sendMessage" /\ IsOpen(wsRef) =>
            LET n == Len(callLog')
                call == callLog'[n]
            IN /\ messages' = Append(messages, [role |-> "user", content |-> call.content,
                                                id |-> Null, call |-> n,
                                                feedback |-> Null, feedbackNote |-> Null])
               /\ isStreaming' /\ isThinking'
               /\ streamingContent' = <<>>
               /\ accumulatedContentRef' = <<>>
               /\ thinkingContent' = <<>>
               /\ currentToolCall' = Null
               /\ sent' = Append(sent,
                     [sock |-> wsRef, message |-> call.content,
                      project_key |-> IF call.projectKey = "P1" THEN "P1" ELSE Null,
                      action |-> Null, call |-> n]) ]_vars

C10_Witness ==
    /\ last = "sendMessage"
    /\ g.shape = "S0"
    /\ Len(sent) = 1
    /\ callLog[1].projectKey = ""
    /\ sent[1].project_key = Null
    /\ Len(messages) = 1
    /\ isThinking

\* C11: every connect closes the handle held before it opens the next, so the only
\* socket that has not been asked to close (connecting or open) is the one the
\* session holds, and at most one socket can deliver events.
C11_SingleLiveHandle ==
    /\ \A s \in Sockets :
          sockets[s].readyState \in {"CONNECTING", "OPEN"} => s = wsRef
    /\ Cardinality({s \in Sockets : CanDeliver(s)}) <= 1

C11_Witness ==
    /\ last = "open"
    /\ wsRef = 3
    /\ sockets[3].readyState = "OPEN"
    /\ sockets[1].readyState \in {"CLOSING", "CLOSED"}
    /\ sockets[2].readyState \in {"CLOSING", "CLOSED"}
    /\ sockets[3].path # sockets[2].path

\* C12: startNewChat and loadConversation replace the session: messages and
\* threadId are the supplied ones (empty and null for a new chat), every transient
\* buffer and flag is reset, and the held socket is a new one connecting to the
\* new thread (or to 'new').
C12_FullSessionReplacement ==
    last \in {"loadConversation", "startNewChat"} =>
        /\ last = "startNewChat" => messages = <<>> /\ threadId = Null
        /\ threadId = currentThreadIdRef
        /\ streamingContent = <<>>
        /\ accumulatedContentRef = <<>>
        /\ thinkingContent = <<>>
        /\ currentToolCall = Null
        /\ ~isStreaming
        /\ ~isThinking
        /\ sockets[wsRef].readyState = "CONNECTING"
        /\ sockets[wsRef].path = getWsUrl(threadId)

\* C13: after an error event the transient buffers (streaming text, accumulated
\* answer, thinking text, active tool) are empty, the phase is Idle and no message
\* has been appended.
C13_ErrorAbortsGeneration ==
    [][ last' = "error" =>
            /\ streamingContent' = <<>>
            /\ accumulatedContentRef' = <<>>
            /\ thinkingContent' = <<>>
            /\ currentToolCall' = Null
            /\ ~isStreaming'
            /\ ~isThinking'
            /\ messages' = messages ]_vars

\* C14: editMessage(messageId, newContent) for the message at position i leaves
\* exactly the first i entries of messages, those before i unchanged and entry i
\* changed only in its content, which is newContent; when no message has that id
\* messages is unchanged.
C14_EditTruncates ==
    [][ last' = "editMessage" =>
            LET id == editReq'.messageId
                hits == {k \in 1..Len(messages) : messages[k].id = id}
            IN IF hits = {} THEN messages' = messages
               ELSE LET i == CHOOSE k \in hits : \A j \in hits : k <= j
                    IN /\ Len(messages') = i
                       /\ \A j \in 1..(i - 1) : messages'[j] = messages[j]
                       /\ messages'[i] =
                             [messages[i] EXCEPT !.content = editReq'.newContent] ]_vars

C14_Witness ==
    /\ last = "editMessage"
    /\ editReq.messageId = "U1"
    /\ editReq.newContent = <<"_">>
    /\ Len(messages) = 1
    /\ messages[1].id = "U1"
    /\ messages[1].role = "user"
    /\ messages[1].content = <<"_">>

\* C15: when the PUT of editMessage does not succeed, messages keeps the
\* truncated and overwritten list, and isStreaming and isThinking are false.
C15_FailedEditKeepsTruncation ==
    [][ last' \in {"editMessage:put:rejected", "editMessage:put:failed"} =>
            /\ messages' = messages
            /\ ~isStreaming'
            /\ ~isThinking' ]_vars

C15_Witness ==
    /\ last = "editMessage:put:rejected"
    /\ editReq = NoEdit
    /\ Len(messages) = 1
    /\ messages[1].id = "U1"
    /\ messages[1].content = <<"_">>
    /\ ~isStreaming
    /\ ~isThinking

\* C16: editMessage starts a regeneration exactly when its PUT succeeded. The
\* hook's only way to start one is the payload {action: 'edit', message} on the
\* socket, so every successful PUT transmits that payload and nothing else does.
C16_RegenerationIffUpdated ==
    [][ /\ last' = "editMessage:put:ok" =>
              /\ Len(sent') = Len(sent) + 1
              /\ sent'[Len(sent')].action = "edit"
              /\ sent'[Len(sent')].message = editReq.newContent
        /\ (Len(sent') > Len(sent) /\ sent'[Len(sent')].action = "edit") =>
              last' = "editMessage:put:ok" ]_vars

C18_FailureReturnedToCaller ==
    last \in {"editMessage:put:rejected", "switchBranch:put:rejected",
              "submitFeedback:post:rejected"} =>
        settled = "rejected"

\* C19 as stated: once the server accepts the switch the conversation is
\* refetched, and messages becomes the refetched list.
C19_ReplacedByRefetched ==
    [][ /\ last' = "switchBranch:put:ok" => switchReq'.stage = "get"
        /\ last' = "switchBranch:get:ok" => messages' = fetched' ]_vars

\* C19 amended: once the server accepts the switch the conversation of the thread
\* the call was made on is refetched; when the refetch succeeds messages becomes
\* the refetched list with filterThinkTags applied to every content, nothing of
\* the old list kept; when the refetch fails messages is left as it was.
C19_ReplacedByFilteredRefetch ==
    [][ /\ last' = "switchBranch:put:ok" =>
              /\ switchReq'.stage = "get"
              /\ switchReq'.threadId = switchReq.threadId
              /\ messages' = messages
        /\ last' = "switchBranch:get:ok" =>
              /\ Len(messages') = Len(fetched')
              /\ \A i \in 1..Len(fetched') :
                    messages'[i] =
                       [fetched'[i] EXCEPT !.content = Trim(RemoveThink(fetched'[i].content))]
        /\ last' \in {"switchBranch:get:rejected", "switchBranch:get:failed"} =>
              messages' = messages ]_vars

C19_Witness ==
    /\ last = "switchBranch:get:ok"
    /\ switchReq = NoSwitch
    /\ Len(fetched) = 2
    /\ Len(messages) = 2
    /\ messages[2].id = fetched[2].id
    /\ messages[2].content = <<"x">>
    /\ fetched[2].content # <<"x">>

\* C20: init, thinking, stream/content, tool_call, tool_result and error events,
\* an undecodable event, stopStreaming and a connection close leave messages as it
\* was; the number of assistant messages grows only when an end event is
\* processed or when the list is replaced by the conversation refetched after it.
C20_OnlyEndAppendsAssistant ==
    [][ /\ last' \in {"init", "thinking", "stream", "tool_call", "tool_result", "error",
                      "ignored", "stopStreaming", "close", "serverClose"} =>
              messages' = messages
        /\ AssistantCount(messages') > AssistantCount(messages) =>
              last' \in {"end", "refreshed"} ]_vars

C20_Witness ==
    /\ last = "stopStreaming"
    /\ accumulatedContentRef # <<>>
    /\ sockets[wsRef].readyState = "CLOSING"
    /\ messages # <<>>
    /\ AssistantCount(messages) = 0

\* C21 as stated: after an end event the streaming text, the accumulated answer,
\* the thinking text and the active tool are all cleared and the phase is Idle.
C21_EndClearsEverything ==
    [][ last' = "end" =>
            /\ streamingContent' = <<>>
            /\ accumulatedContentRef' = <<>>
            /\ thinkingContent' = <<>>
            /\ currentToolCall' = Null
            /\ ~isStreaming'
            /\ ~isThinking' ]_vars

\* C21 amended: after an end event the streaming text, the accumulated answer and
\* the active tool are cleared and the phase is Idle, whatever preceded it; the
\* thinking text is left as it was.
C21_EndClearsAnswerBuffers ==
    [][ last' = "end" =>
            /\ streamingContent' = <<>>
            /\ accumulatedContentRef' = <<>>
            /\ currentToolCall' = Null
            /\ ~isStreaming'
            /\ ~isThinking'
            /\ thinkingContent' = thinkingContent ]_vars

C21_Witness ==
    /\ last = "end"
    /\ g.shape = "SE"
    /\ g.deltas # <<>>
    /\ thinkingContent # <<>>
    /\ streamingContent = <<>>
    /\ accumulatedContentRef = <<>>
    /\ ~isStreaming

\* C22: an end event carrying user_message_id gives that id to the most recent
\* user message without an id and changes no other message already in the list;
\* when no user message lacks an id nothing already in the list changes.
C22_BackfillMostRecentLacking ==
    [][ last' = "end" /\ g'.uid # Null =>
            LET lacking == {i \in 1..Len(messages) :
                               messages[i].role = "user" /\ messages[i].id = Null}
                target == IF lacking = {} THEN 0
                          ELSE CHOOSE i \in lacking : \A j \in lacking : j <= i
            IN \A i \in 1..Len(messages) :
                  messages'[i] = IF i = target
                                 THEN [messages[i] EXCEPT !.id = g'.uid]
                                 ELSE messages[i] ]_vars

\* C23: right after stopStreaming the held socket has been closed, the streaming
\* text, the accumulated answer and the thinking text are empty, no tool is
\* active and the streaming and thinking flags are false.
C23_StopClearsTransients ==
    last = "stopStreaming" =>
        /\ wsRef # NoWs => sockets[wsRef].readyState \in {"CLOSING", "CLOSED"}
        /\ streamingContent = <<>>
        /\ accumulatedContentRef = <<>>
        /\ thinkingContent = <<>>
        /\ currentToolCall = Null
        /\ ~isStreaming
        /\ ~isThinking

\* C26: a send that was queued is transmitted only on a socket addressed to the
\* thread that was current when sendMessage was called.
C26_PendingStaysInItsThread ==
    \A i \in 1..Len(sent) :
        (sent[i].call # 0 /\ callLog[sent[i].call].queued) =>
            sockets[sent[i].sock].path = getWsUrl(callLog[sent[i].call].thread)

\* C27: when the end event of a generation started by a send is processed, the
\* user message that send appended is still in messages.
C27_UserMessageSurvivesRefetch ==
    [][ last' = "end" /\ g.shape \in {"S0", "ST", "SC"} =>
            \E i \in 1..Len(messages) :
                /\ messages[i].role = "user"
                /\ messages[i].call = sent[Len(sent)].call ]_vars

\* loadConversation or startNewChat has moved the session off thread t: the held
\* socket is addressed to another thread, or to 'new' with no thread assigned
SwitchedAwayFrom(t) ==
    \/ sockets[wsRef].path \notin {"new", t}
    \/ sockets[wsRef].path = "new" /\ threadId = Null

\* C28: the result of a conversation refetch issued for thread t (after end, or
\* inside switchBranch) does not change messages once loadConversation or
\* startNewChat has switched the session away from t.
C28_RefetchOnlyForCurrentThread ==
    [][ /\ last' = "refreshed" /\ messages' # messages =>
              \A t \in refreshing \ refreshing' : ~SwitchedAwayFrom(t)
        /\ last' = "switchBranch:get:ok" /\ messages' # messages =>
              ~SwitchedAwayFrom(switchReq.threadId) ]_vars

\* C30: while the held socket is open (its open notification was processed and
\* it has not closed) isConnected is true.
C30_ConnectedWhileOpen ==
    IsOpen(wsRef) => isConnected

\* the explored horizon of a run is used up: no step, or no append, is left
Exhausted == steps = MaxSteps \/ Len(messages) = MaxMsgs

\* C25: whenever isStreaming is true it becomes false again without a user
\* action (within the explored horizon).
C25_StreamingEnds ==
    isStreaming ~> (~isStreaming \/ Exhausted)

\* the events of a list of records: one per event record, in order
RECURSIVE EventsOf(_)
EventsOf(recs) ==
    IF recs = <<>> THEN <<>>
    ELSE (IF Head(recs) \in EventTypes THEN <<Head(recs)>> ELSE <<>>) \o EventsOf(Tail(recs))

\* what of the body has been read so far
Consumed == SubSeq(BodyOf(records), 1, Len(BodyOf(records)) - Len(body))

\* C24: however the body of a stream is cut into chunks, what has been decoded
\* is what decoding the same text as one chunk gives: the events handed on are
\* those of its complete lines, the text after the last newline is kept for
\* the next chunk, and once the whole body is read there is exactly one event
\* per event record, in order, lines without the marker, with an empty payload
\* or with a broken payload having produced none.
C24_ChunkingIndependent ==
    (records # <<>>) =>
        /\ dispatched = HandleLines(SubSeq(Split(Consumed), 1, Len(Split(Consumed)) - 1))
        /\ buffer = Split(Consumed)[Len(Split(Consumed))]
        /\ (body = <<>> => dispatched = EventsOf(records) /\ buffer = <<>>)

\* a body of two events was read to its end in pieces that cut through a line
C24_Witness ==
    /\ ~reading
    /\ carried
    /\ Len(records) = 2
    /\ dispatched = <<"stream", "end">>

\* C29: once disconnect() has run and until connect() is called again, no new
\* connection is opened and no reconnect timer is armed, in particular not by
\* the close notification of the socket that disconnect() closed.
C29_NoReconnectAfterDisconnect ==
    [][ (disconnected /\ disconnected') =>
            /\ nextHookSocket' = nextHookSocket
            /\ timers' \subseteq timers ]_vars

====
